---- MODULE Spec2Model ----
(***************************************************************************)
(* Model of the buffer engine of the reflex editor (src/src/filebuffer.rs) *)
(* and of the key dispatch that drives it (src/src/editor.rs).             *)
(* The text is a sequence of one-character strings; the rope operations    *)
(* the engine calls (len_lines, line_to_char, get_line, insert, slice,     *)
(* remove) are operators on that sequence, with their out-of-range panics  *)
(* modelled as a flag that ends the run.                                    *)
(***************************************************************************)
EXTENDS Integers, Sequences, FiniteSets, TLC

VARIABLES file_contents, file_path, buffer_is_empty, file_is_dirty,
          selections, primary_selection_idx, offset,
          should_quit, mode, command_line,
          saved, panicked, lastOp, pre

\* file_contents .. offset are the fields of FileBuffer (file_path is "Some"
\* or "None"; selections is 1-based here, primary_selection_idx 0-based as in
\* the source).  saved is the content at the last successful save, or at
\* load/creation; panicked is set when a rope call is out of range and the
\* process aborts; lastOp and pre record the last call and the state it
\* started from.  should_quit, mode and command_line are fields of Editor,
\* whose one file buffer the fields above are (command_history is only ever
\* pushed to and is left out).
vars == <<file_contents, file_path, buffer_is_empty, file_is_dirty,
          selections, primary_selection_idx, offset,
          should_quit, mode, command_line,
          saved, panicked, lastOp, pre>>

\* the fields of Editor outside the file buffer
editor_vars == <<should_quit, mode, command_line>>

\* ---------------------------------------------------------------- bounds
\* longest text an insert may produce, with one selection
MaxLen == 3
\* the same where the state is wider: several selections, or the saved copy
MaxMultiLen == 2
MaxSaveLen == 2
\* the same with every operation and several selections
MaxAllLen == 1
\* longest file opened, with one selection and with several
MaxOpenLen == 1
MaxInitLen == 2
\* most selections
MaxSel == 2
\* largest width and height of the window
MaxSize == 2

\* characters typed into the two-line file
MaxScenarioInserts == 1

\* longest command typed into the command line
MaxCommandLen == 2

NL == "\n"
Chars == {"a", NL}

\* ------------------------------------------------------ usize arithmetic
saturating_sub(a, b) == IF a > b THEN a - b ELSE 0
saturating_add(a, b) == a + b
min(a, b) == IF a < b THEN a ELSE b

\* ------------------------------------------------------------- the rope
len_chars(t) == Len(t)

NLBefore(t, k) == Cardinality({n \in 1..k : t[n] = NL})

len_lines(t) == NLBefore(t, Len(t)) + 1

\* Rope::line_to_char: defined for i in 0..len_lines(t), one past the end
\* gives the total character count.  A line index beyond that panics in the
\* rope: insert_sel and delete_sel test for it before they use this.
line_to_char(t, i) ==
    IF i >= len_lines(t) THEN Len(t)
    ELSE CHOOSE k \in 0..Len(t) : NLBefore(t, k) = i /\ (k = 0 \/ t[k] = NL)

\* FileBuffer::is_empty
is_empty(t) == len_lines(t) = 0

\* FileBuffer::row(i) is Some exactly for i < len_lines
has_row(t, i) == i < len_lines(t)

\* row(i).len_chars(): the line with its terminator
row_len_chars(t, i) == line_to_char(t, i + 1) - line_to_char(t, i)

\* visible characters of line i: the line without its trailing newline
visible_len(t, i) ==
    LET n == row_len_chars(t, i)
        s == line_to_char(t, i)
    IN IF n > 0 /\ t[s + n] = NL THEN n - 1 ELSE n

rope_insert(t, at, c) == SubSeq(t, 1, at) \o <<c>> \o SubSeq(t, at + 1, Len(t))

rope_remove(t, at) == SubSeq(t, 1, at) \o SubSeq(t, at + 2, Len(t))

\* ------------------------------------------------------------ positions
Position(x, xp, y) == [x |-> x, x_preferred |-> xp, y |-> y]
PositionDefault == Position(0, 0, 0)

\* ---------------------------------------------------------------- insert
\* One iteration of the loop of insert, for selection i (1-based here).
\* b = [text, sels, panic]
insert_shift(s, cur) ==
    LET c1 == IF s.cursor.y = cur.y /\ s.cursor.x > cur.x
              THEN [s.cursor EXCEPT !.x = saturating_add(@, 1),
                                    !.x_preferred = saturating_add(@, 1)]
              ELSE s.cursor
        a1 == IF s.anchor.y = cur.y /\ s.anchor.x > cur.x
              THEN [s.anchor EXCEPT !.x = saturating_add(@, 1)]
              ELSE s.anchor
    IN [anchor |-> a1, cursor |-> c1]

insert_sel(b, i, c) ==
    LET t == b.text
        cur == b.sels[i].cursor
    IN IF cur.y > len_lines(t) THEN [b EXCEPT !.panic = TRUE]
       ELSE
       LET char_pos == line_to_char(t, cur.y) + cur.x
       IN IF char_pos > len_chars(t) THEN [b EXCEPT !.panic = TRUE]
          ELSE
          LET t1 == IF cur.y = len_lines(t) THEN rope_insert(t, char_pos, NL) ELSE t
              t2 == rope_insert(t1, char_pos, c)
              cur2 == IF c = NL
                      THEN [cur EXCEPT !.x = 0, !.y = saturating_add(@, 1)]
                      ELSE [cur EXCEPT !.x = saturating_add(@, 1)]
              sels2 == [j \in 1..Len(b.sels) |->
                          IF j = i THEN [b.sels[j] EXCEPT !.cursor = cur2]
                          ELSE IF j > i THEN insert_shift(b.sels[j], cur2)
                          ELSE b.sels[j]]
          IN [text |-> t2, sels |-> sels2, panic |-> FALSE]

\* iterations i..n of the loop of insert
RECURSIVE insert_loop(_, _, _, _)
insert_loop(b, i, n, c) ==
    IF b.panic \/ i > n THEN b
    ELSE insert_loop(insert_sel(b, i, c), i + 1, n, c)

\* insert without lines 124-125
insert_flag_never_set(r, old, new) == old

\* lines 124-125 run when the loop has run through
insert_flag(r, old, new) == IF r.panic THEN old ELSE new

Buf == [text |-> file_contents, sels |-> selections, panic |-> FALSE]

Snapshot == [text |-> file_contents, sels |-> selections,
             dirty |-> file_is_dirty, offset |-> offset]

\* insert(c), taken while the text stays within cap characters
insert_capped(c, cap) ==
    /\ ~panicked
    /\ LET r == insert_loop(Buf, 1, Len(selections), c)
       IN /\ Len(r.text) <= cap
          /\ file_contents' = r.text
          /\ selections' = r.sels
          /\ panicked' = r.panic
          /\ buffer_is_empty' = insert_flag(r, buffer_is_empty, FALSE)
          /\ file_is_dirty' = insert_flag(r, file_is_dirty, TRUE)
    /\ lastOp' = [op |-> "insert", arg |-> c]
    /\ pre' = Snapshot
    /\ UNCHANGED <<file_path, primary_selection_idx, offset, saved>>
    /\ UNCHANGED editor_vars

insert(c) == insert_capped(c, MaxLen)

\* ---------------------------------------------------------------- delete
\* One iteration of the loop of delete, for selection i (1-based here).
\* b = [text, sels, panic, returned]; returned is the early return of the
\* whole call at a boundary selection.
delete_shift(s, cur) ==
    LET c1 == IF s.cursor.y = cur.y /\ s.cursor.x > cur.x
              THEN [s.cursor EXCEPT !.x = @ - 1]
              ELSE s.cursor
        a1 == IF s.anchor.y = cur.y /\ s.anchor.x > cur.x
              THEN [s.anchor EXCEPT !.x = @ - 1]
              ELSE s.anchor
    IN [anchor |-> a1, cursor |-> c1]

\* at_boundary without the backspace half of the guard (lines 133-135)
at_boundary_forward_only(t, cur, backspace) ==
    cur.y >= len_lines(t) /\ ~backspace

at_boundary(t, cur, backspace) ==
    \/ cur.y >= len_lines(t) /\ ~backspace
    \/ cur.x = 0 /\ cur.y = 0 /\ backspace

\* delete_cursor with the else-if of line 153 missing: a backspace that
\* removes an ordinary character leaves the column where it was
delete_cursor_keeps_column(t, cur, newline_deleted, backspace) ==
    IF newline_deleted /\ backspace
    THEN LET y1 == saturating_sub(cur.y, 1)
         IN [cur EXCEPT !.y = y1,
                        !.x = IF has_row(t, y1)
                              THEN saturating_sub(row_len_chars(t, y1), 1)
                              ELSE 0]
    ELSE cur

\* delete_cursor with the terminator counted into the column (line 149
\* without its saturating_sub)
delete_cursor_counts_newline(t, cur, newline_deleted, backspace) ==
    IF newline_deleted /\ backspace
    THEN LET y1 == saturating_sub(cur.y, 1)
         IN [cur EXCEPT !.y = y1,
                        !.x = IF has_row(t, y1) THEN row_len_chars(t, y1) ELSE 0]
    ELSE IF backspace THEN [cur EXCEPT !.x = saturating_sub(@, 1)]
    ELSE cur

\* delete_cursor with the column stepped back whatever the direction (the
\* else-if of line 153 without its condition)
delete_cursor_always_steps(t, cur, newline_deleted, backspace) ==
    IF newline_deleted /\ backspace
    THEN LET y1 == saturating_sub(cur.y, 1)
         IN [cur EXCEPT !.y = y1,
                        !.x = IF has_row(t, y1)
                              THEN saturating_sub(row_len_chars(t, y1), 1)
                              ELSE 0]
    ELSE [cur EXCEPT !.x = saturating_sub(@, 1)]

\* cursor of the deleting selection after lines 145-155
delete_cursor(t, cur, newline_deleted, backspace) ==
    IF newline_deleted /\ backspace
    THEN LET y1 == saturating_sub(cur.y, 1)
         IN [cur EXCEPT !.y = y1,
                        !.x = IF has_row(t, y1)
                              THEN saturating_sub(row_len_chars(t, y1), 1)
                              ELSE 0]
    ELSE IF backspace THEN [cur EXCEPT !.x = saturating_sub(@, 1)]
    ELSE cur

delete_sel(b, i, backspace) ==
    LET t == b.text
        cur == b.sels[i].cursor
    IN IF at_boundary(t, cur, backspace) THEN [b EXCEPT !.returned = TRUE]
       ELSE IF cur.y > len_lines(t) THEN [b EXCEPT !.panic = TRUE]
       ELSE
       LET p0 == line_to_char(t, cur.y) + cur.x
           char_pos == IF backspace THEN saturating_sub(p0, 1) ELSE p0
       IN IF char_pos >= len_chars(t) THEN [b EXCEPT !.panic = TRUE]
          ELSE
          LET newline_deleted == t[char_pos + 1] = NL
              cur2 == delete_cursor(t, cur, newline_deleted, backspace)
              sels2 == [j \in 1..Len(b.sels) |->
                          IF j = i THEN [b.sels[j] EXCEPT !.cursor = cur2]
                          ELSE IF j > i THEN delete_shift(b.sels[j], cur2)
                          ELSE b.sels[j]]
          IN [text |-> rope_remove(t, char_pos), sels |-> sels2,
              panic |-> FALSE, returned |-> FALSE]

\* iterations i..n of the loop of delete
RECURSIVE delete_loop(_, _, _, _)
delete_loop(b, i, n, backspace) ==
    IF b.panic \/ b.returned \/ i > n THEN b
    ELSE delete_loop(delete_sel(b, i, backspace), i + 1, n, backspace)

\* delete without line 170
delete_dirty_never_set(r, old) == old

\* line 170 runs unless the call returned at line 137
delete_dirty(r, old) == IF r.panic \/ r.returned THEN old ELSE TRUE

DBuf == [text |-> file_contents, sels |-> selections,
         panic |-> FALSE, returned |-> FALSE]

delete(backspace) ==
    /\ ~panicked
    /\ LET r == delete_loop(DBuf, 1, Len(selections), backspace)
       IN /\ file_contents' = r.text
          /\ selections' = r.sels
          /\ panicked' = r.panic
          /\ file_is_dirty' = delete_dirty(r, file_is_dirty)
    /\ lastOp' = [op |-> "delete", arg |-> backspace]
    /\ pre' = Snapshot
    /\ UNCHANGED <<file_path, buffer_is_empty, primary_selection_idx, offset, saved>>
    /\ UNCHANGED editor_vars

\* ------------------------------------------------------------------ save
\* With a path the write either succeeds (io_ok) or returns the error with
\* the flag untouched; without a path File::create("") fails.
\* save returns Ok
save_ok(path, io_ok) == path = "Some" /\ io_ok

\* save with line 184 moved in front of the write: the flag is cleared
\* whether or not the write succeeds
save_dirty_cleared_first(path, io_ok, old) == IF path = "Some" THEN FALSE ELSE old

\* line 184 runs after the write of lines 182-183 has succeeded
save_dirty(path, io_ok, old) == IF save_ok(path, io_ok) THEN FALSE ELSE old

save(io_ok) ==
    /\ ~panicked
    /\ file_is_dirty' = save_dirty(file_path, io_ok, file_is_dirty)
    /\ saved' = IF save_ok(file_path, io_ok) THEN file_contents ELSE saved
    /\ lastOp' = [op |-> "save", arg |-> save_ok(file_path, io_ok)]
    /\ pre' = Snapshot
    /\ UNCHANGED <<file_contents, file_path, buffer_is_empty, selections,
                   primary_selection_idx, offset, panicked>>
    /\ UNCHANGED editor_vars

\* ---------------------------------------------------------- move_cursors
\* update_cursors_x_pos writing the clamped column to x_preferred as well
update_cursors_x_pos_forgets(t, sels) ==
    [i \in 1..Len(sels) |->
        LET col == IF has_row(t, sels[i].cursor.y)
                   THEN min(sels[i].cursor.x_preferred,
                            saturating_sub(row_len_chars(t, sels[i].cursor.y), 1))
                   ELSE 0
        IN [sels[i] EXCEPT !.cursor.x = col, !.cursor.x_preferred = col]]

update_cursors_x_pos(t, sels) ==
    [i \in 1..Len(sels) |->
        [sels[i] EXCEPT !.cursor.x =
            IF has_row(t, sels[i].cursor.y)
            THEN min(sels[i].cursor.x_preferred,
                     saturating_sub(row_len_chars(t, sels[i].cursor.y), 1))
            ELSE 0]]

move_dir(t, cur, key_code) ==
    CASE key_code = "Up" -> [cur EXCEPT !.y = saturating_sub(@, 1)]
      [] key_code = "Down" ->
            IF cur.y < saturating_sub(len_lines(t), 1)
            THEN [cur EXCEPT !.y = saturating_add(@, 1)] ELSE cur
      [] key_code = "Left" -> [cur EXCEPT !.x_preferred = saturating_sub(cur.x, 1)]
      [] key_code = "Right" ->
            IF has_row(t, cur.y) /\ cur.x < saturating_sub(row_len_chars(t, cur.y), 1)
            THEN [cur EXCEPT !.x_preferred = saturating_add(cur.x, 1)] ELSE cur
      [] OTHER -> cur

\* lines 245-248 without line 247
snap_anchor_x_only(s) == [s EXCEPT !.anchor.x = s.cursor.x]

snap_anchor(s) == [s EXCEPT !.anchor.x = s.cursor.x, !.anchor.y = s.cursor.y]

\* move_cursors dropping the last selection once two cursors have met
move_result_merging(t, sels, key_code) ==
    LET s1 == [i \in 1..Len(sels) |->
                  [sels[i] EXCEPT !.cursor = move_dir(t, sels[i].cursor, key_code)]]
        s2 == update_cursors_x_pos(t, s1)
        s3 == [i \in 1..Len(sels) |-> snap_anchor(s2[i])]
    IN IF \E i, j \in 1..Len(s3) : i < j /\ s3[i].cursor = s3[j].cursor
       THEN SubSeq(s3, 1, Len(s3) - 1) ELSE s3

move_result(t, sels, key_code) ==
    LET s1 == [i \in 1..Len(sels) |->
                  [sels[i] EXCEPT !.cursor = move_dir(t, sels[i].cursor, key_code)]]
        s2 == update_cursors_x_pos(t, s1)
    IN [i \in 1..Len(sels) |-> snap_anchor(s2[i])]

KeyCodes == {"Up", "Down", "Left", "Right"}

move_cursors(key_code) ==
    /\ ~panicked
    /\ selections' = move_result(file_contents, selections, key_code)
    /\ lastOp' = [op |-> "move_cursors", arg |-> key_code]
    /\ pre' = Snapshot
    /\ UNCHANGED <<file_contents, file_path, buffer_is_empty, file_is_dirty,
                   primary_selection_idx, offset, saved, panicked>>
    /\ UNCHANGED editor_vars

\* -------------------------------------------------------- shift_viewport
get_primary_selection_cursor_pos(sels, idx, off) ==
    Position(saturating_sub(sels[idx + 1].cursor.x, off.x), 0,
             saturating_sub(sels[idx + 1].cursor.y, off.y))

\* shift_axis without the saturating_add(1) of lines 335 and 344
shift_axis_off_by_one(rel, cur, off, extent) ==
    IF rel >= extent THEN saturating_sub(cur, extent)
    ELSE IF off > cur THEN cur
    ELSE off

\* shift_axis without the else-if of lines 336-338 and 345-347
shift_axis_never_shrinks(rel, cur, off, extent) ==
    IF rel >= extent THEN saturating_add(saturating_sub(cur, extent), 1)
    ELSE off

shift_axis(rel, cur, off, extent) ==
    IF rel >= extent THEN saturating_add(saturating_sub(cur, extent), 1)
    ELSE IF off > cur THEN cur
    ELSE off

shift_offset(sels, idx, off, size) ==
    LET p == get_primary_selection_cursor_pos(sels, idx, off)
        c == sels[idx + 1].cursor
    IN [off EXCEPT !.x = shift_axis(p.x, c.x, off.x, size.width),
                   !.y = shift_axis(p.y, c.y, off.y, size.height)]

\* Option<Position>
None == [some |-> FALSE, pos |-> PositionDefault]
Some(p) == [some |-> TRUE, pos |-> p]

get_screen_cursor_pos(cursor, off, size) ==
    IF \/ cursor.x < off.x
       \/ cursor.x >= saturating_add(off.x, size.width)
       \/ cursor.y < off.y
       \/ cursor.y >= saturating_add(off.y, size.height)
    THEN None
    ELSE Some(Position(saturating_sub(cursor.x, off.x), 0,
                       saturating_sub(cursor.y, off.y)))

Sizes == [width : 1..MaxSize, height : 1..MaxSize]

\* the sizes of Sizes and those of a terminal with no column or one row
\* only, whose height (rows less the status line) is 0
AllSizes == [width : 0..MaxSize, height : 0..MaxSize]

shift_viewport(size) ==
    /\ ~panicked
    /\ offset' = shift_offset(selections, primary_selection_idx, offset, size)
    /\ lastOp' = [op |-> "shift_viewport", arg |-> size]
    /\ pre' = Snapshot
    /\ UNCHANGED <<file_contents, file_path, buffer_is_empty, file_is_dirty,
                   selections, primary_selection_idx, saved, panicked>>
    /\ UNCHANGED editor_vars

\* ------------------------------------------------------------------ Init
Texts(n) == UNION {[1..k -> Chars] : k \in 0..n}

\* Cursor positions that move_cursors reaches from the origin on text t:
\* a line of the text, a column up to its last in-bounds column, with the
\* preferred column in step and the anchor snapped to the cursor.
MovedCursors(t) ==
    {p \in [x : 0..Len(t), x_preferred : 0..Len(t), y : 0..Len(t)] :
        /\ p.y < len_lines(t)
        /\ p.x <= saturating_sub(row_len_chars(t, p.y), 1)
        /\ p.x_preferred = p.x}

MovedSelections(t) ==
    {[anchor |-> Position(p.x, 0, p.y), cursor |-> p] : p \in MovedCursors(t)}

NoOp == [op |-> "init", arg |-> ""]

\* CommandLine::default()
CommandLineDefault == [command |-> <<>>, cursor_pos |-> 0]

\* open with the flag taken from the content read
open_buffer_is_empty_by_content(t) == t = <<>>

\* buffer_is_empty of the buffer that open builds (line 65)
open_buffer_is_empty(t) == FALSE

\* FileBuffer::default() or FileBuffer::open(path) of a file of at most
\* len characters, then n selections placed by the caller (selections is a
\* pub field) on positions of the text.
InitBuffer(n, len) ==
    /\ \/ /\ file_contents = <<>>
          /\ file_path = "None"
          /\ buffer_is_empty = TRUE
       \/ /\ file_contents \in Texts(len)
          /\ file_path = "Some"
          /\ buffer_is_empty = open_buffer_is_empty(file_contents)
    /\ file_is_dirty = FALSE
    /\ selections \in [1..n -> MovedSelections(file_contents)]
    /\ primary_selection_idx \in 0..(n - 1)
    /\ offset = PositionDefault
    /\ saved = file_contents
    /\ should_quit = FALSE
    /\ mode = "Normal"
    /\ command_line = CommandLineDefault
    /\ panicked = FALSE
    /\ lastOp = NoOp
    /\ pre = Snapshot

Init == \E n \in 1..MaxSel : InitBuffer(n, min(MaxInitLen, MaxMultiLen))

InitOne == InitBuffer(1, min(MaxOpenLen, MaxLen))

InitSave == InitBuffer(1, min(MaxOpenLen, MaxSaveLen))

Next ==
    \/ \E c \in Chars : insert_capped(c, MaxMultiLen)
    \/ \E backspace \in BOOLEAN : delete(backspace)
    \/ \E key_code \in KeyCodes : move_cursors(key_code)

NextOne ==
    \/ \E c \in Chars : insert(c)
    \/ \E backspace \in BOOLEAN : delete(backspace)
    \/ \E key_code \in KeyCodes : move_cursors(key_code)

NextSave ==
    \/ \E c \in Chars : insert_capped(c, MaxSaveLen)
    \/ \E backspace \in BOOLEAN : delete(backspace)
    \/ \E key_code \in KeyCodes : move_cursors(key_code)
    \/ \E io_ok \in BOOLEAN : save(io_ok)

NextView ==
    \/ \E c \in Chars : insert_capped(c, MaxMultiLen)
    \/ \E key_code \in KeyCodes : move_cursors(key_code)
    \/ \E size \in Sizes : shift_viewport(size)

\* the file of two terminated lines that the insert example opens
ScenarioText == <<"a", "b", "c", NL, "d", "e", "f", NL>>

\* FileBuffer::open of that file, the cursor then moved anywhere in it
InitScenario ==
    /\ file_contents = ScenarioText
    /\ file_path = "Some"
    /\ buffer_is_empty = open_buffer_is_empty(file_contents)
    /\ file_is_dirty = FALSE
    /\ selections \in [1..1 -> MovedSelections(file_contents)]
    /\ primary_selection_idx = 0
    /\ offset = PositionDefault
    /\ saved = file_contents
    /\ should_quit = FALSE
    /\ mode = "Normal"
    /\ command_line = CommandLineDefault
    /\ panicked = FALSE
    /\ lastOp = NoOp
    /\ pre = Snapshot

NextScenario ==
    \/ \E c \in Chars : insert_capped(c, Len(ScenarioText) + MaxScenarioInserts)
    \/ \E key_code \in KeyCodes : move_cursors(key_code)

InitAll == \E n \in 1..MaxSel : InitBuffer(n, min(MaxOpenLen, MaxAllLen))

NextAll ==
    \/ \E c \in Chars : insert_capped(c, MaxAllLen)
    \/ \E backspace \in BOOLEAN : delete(backspace)
    \/ \E key_code \in KeyCodes : move_cursors(key_code)
    \/ \E size \in Sizes : shift_viewport(size)
    \/ \E io_ok \in BOOLEAN : save(io_ok)

NextScroll ==
    \/ \E c \in Chars : insert_capped(c, MaxAllLen)
    \/ \E key_code \in KeyCodes : move_cursors(key_code)
    \/ \E size \in AllSizes : shift_viewport(size)

\* ---------------------------------------------------------------- Editor
\* the text area of the terminal, fixed by Terminal::new
terminal_size == [width |-> MaxSize, height |-> MaxSize]

\* the keys read: the codes process_keypress matches, one it does not, and
\* the characters it and execute_command tell apart
Key(code, c) == [code |-> code, c |-> c]
CommandChars == {":", "i", "w", "q"}
Keys ==
    {Key(code, "") : code \in {"Esc", "Enter", "Delete", "Backspace",
                               "Left", "Right", "Up", "Down", "Tab"}}
       \cup {Key("Char", c) : c \in CommandChars}

\* insert(c) then shift_viewport (lines 211-213 and 222-226)
key_insert(c) ==
    LET r == insert_loop(Buf, 1, Len(selections), c)
    IN /\ Len(r.text) <= MaxAllLen
       /\ file_contents' = r.text
       /\ selections' = r.sels
       /\ panicked' = r.panic
       /\ buffer_is_empty' = insert_flag(r, buffer_is_empty, FALSE)
       /\ file_is_dirty' = insert_flag(r, file_is_dirty, TRUE)
       /\ offset' = IF r.panic THEN offset
                    ELSE shift_offset(r.sels, primary_selection_idx, offset,
                                      terminal_size)
       /\ UNCHANGED <<file_path, primary_selection_idx, saved>>
       /\ UNCHANGED editor_vars

\* delete(backspace) then shift_viewport (lines 232-235 and 248-250)
key_delete(backspace) ==
    LET r == delete_loop(DBuf, 1, Len(selections), backspace)
    IN /\ file_contents' = r.text
       /\ selections' = r.sels
       /\ panicked' = r.panic
       /\ file_is_dirty' = delete_dirty(r, file_is_dirty)
       /\ offset' = IF r.panic THEN offset
                    ELSE shift_offset(r.sels, primary_selection_idx, offset,
                                      terminal_size)
       /\ UNCHANGED <<file_path, buffer_is_empty, primary_selection_idx, saved>>
       /\ UNCHANGED editor_vars

\* move_cursors(key_code) then shift_viewport (lines 267-269, 280-281, 288-289)
key_move(key_code) ==
    LET sels == move_result(file_contents, selections, key_code)
    IN /\ selections' = sels
       /\ offset' = shift_offset(sels, primary_selection_idx, offset, terminal_size)
       /\ UNCHANGED <<file_contents, file_path, buffer_is_empty, file_is_dirty,
                      primary_selection_idx, saved, panicked>>
       /\ UNCHANGED editor_vars

\* a key that changes nothing
key_ignored == UNCHANGED <<file_contents, file_path, buffer_is_empty,
                           file_is_dirty, selections, primary_selection_idx,
                           offset, saved, panicked, should_quit, mode,
                           command_line>>

\* a key that changes fields of Editor only
buffer_unchanged == UNCHANGED <<file_contents, file_path, buffer_is_empty,
                                file_is_dirty, selections,
                                primary_selection_idx, offset, saved>>

\* Esc (lines 200-203): the command is emptied, cursor_pos is not written
key_esc ==
    /\ mode' = "Normal"
    /\ command_line' = [command_line EXCEPT !.command = <<>>]
    /\ buffer_unchanged
    /\ UNCHANGED <<should_quit, panicked>>

\* a character in Normal mode (lines 205-209)
key_normal_char(c) ==
    /\ mode' = IF c = ":" THEN "Command" ELSE IF c = "i" THEN "Insert" ELSE mode
    /\ buffer_unchanged
    /\ UNCHANGED <<should_quit, command_line, panicked>>

\* a character in Command mode (lines 215-220); String::insert panics when
\* the index is beyond the end of the string
key_command_char(c) ==
    /\ IF command_line.cursor_pos > Len(command_line.command)
       THEN panicked' = TRUE /\ UNCHANGED command_line
       ELSE /\ Len(command_line.command) < MaxCommandLen
            /\ command_line' =
                  [command |-> rope_insert(command_line.command,
                                           command_line.cursor_pos, c),
                   cursor_pos |-> saturating_add(command_line.cursor_pos, 1)]
            /\ UNCHANGED panicked
    /\ buffer_unchanged
    /\ UNCHANGED <<should_quit, mode>>

\* Delete in Command mode (lines 237-243)
key_command_delete ==
    /\ command_line' =
          IF command_line.cursor_pos < Len(command_line.command)
          THEN [command_line EXCEPT
                   !.command = rope_remove(@, command_line.cursor_pos)]
          ELSE command_line
    /\ buffer_unchanged
    /\ UNCHANGED <<should_quit, mode, panicked>>

\* Backspace in Command mode (lines 252-260); String::remove panics when the
\* index is not inside the string
key_command_backspace ==
    /\ IF command_line.cursor_pos = 0
       THEN UNCHANGED <<command_line, panicked>>
       ELSE IF saturating_sub(command_line.cursor_pos, 1)
                  >= Len(command_line.command)
       THEN panicked' = TRUE /\ UNCHANGED command_line
       ELSE /\ command_line' =
                  [command |-> rope_remove(command_line.command,
                                  saturating_sub(command_line.cursor_pos, 1)),
                   cursor_pos |-> saturating_sub(command_line.cursor_pos, 1)]
            /\ UNCHANGED panicked
    /\ buffer_unchanged
    /\ UNCHANGED <<should_quit, mode>>

\* Left and Right in Command mode (lines 264-266 and 273-278)
key_command_move(code) ==
    /\ command_line' =
          IF code = "Left"
          THEN [command_line EXCEPT !.cursor_pos = saturating_sub(@, 1)]
          ELSE IF command_line.cursor_pos < Len(command_line.command)
          THEN [command_line EXCEPT !.cursor_pos = saturating_add(@, 1)]
          ELSE command_line
    /\ buffer_unchanged
    /\ UNCHANGED <<should_quit, mode, panicked>>

\* Editor::execute_command; an error of save leaves through `?` before the
\* command line is reset, and run passes it to die, which panics
execute_command(io_ok) ==
    LET cmd == command_line.command
        saves == cmd = <<"w">> \/ cmd = <<"w", "q">>
        quits == cmd = <<"q">> \/ cmd = <<"w", "q">>
    IN IF saves /\ ~save_ok(file_path, io_ok)
       THEN /\ panicked' = TRUE
            /\ UNCHANGED <<file_is_dirty, saved, should_quit, mode, command_line>>
       ELSE /\ file_is_dirty' = IF saves
                                THEN save_dirty(file_path, io_ok, file_is_dirty)
                                ELSE file_is_dirty
            /\ saved' = IF saves THEN file_contents ELSE saved
            /\ should_quit' = (should_quit \/ quits)
            /\ command_line' = [command |-> <<>>, cursor_pos |-> 0]
            /\ mode' = "Normal"
            /\ UNCHANGED panicked

key_command_enter(io_ok) ==
    /\ execute_command(io_ok)
    /\ UNCHANGED <<file_contents, file_path, buffer_is_empty, selections,
                   primary_selection_idx, offset>>

\* Editor::process_keypress for the key read, run while the loop of
\* Editor::run goes on
process_keypress(key, io_ok) ==
    /\ ~panicked
    /\ ~should_quit
    /\ lastOp' = [op |-> "process_keypress", arg |-> key]
    /\ pre' = Snapshot
    /\ IF key.code = "Esc" THEN key_esc
       ELSE IF key.code = "Char" THEN
               IF mode = "Insert" THEN key_insert(key.c)
               ELSE IF mode = "Command" THEN key_command_char(key.c)
               ELSE key_normal_char(key.c)
       ELSE IF key.code = "Enter" THEN
               IF mode = "Insert" THEN key_insert(NL)
               ELSE IF mode = "Command" THEN key_command_enter(io_ok)
               ELSE key_ignored
       ELSE IF key.code = "Delete" THEN
               IF mode = "Insert" THEN key_delete(FALSE)
               ELSE IF mode = "Command" THEN key_command_delete
               ELSE key_ignored
       ELSE IF key.code = "Backspace" THEN
               IF mode = "Insert" THEN key_delete(TRUE)
               ELSE IF mode = "Command" THEN key_command_backspace
               ELSE key_ignored
       ELSE IF key.code \in {"Left", "Right"} THEN
               IF mode = "Command" THEN key_command_move(key.code)
               ELSE key_move(key.code)
       ELSE IF key.code \in {"Up", "Down"} THEN
               IF mode = "Command" THEN key_ignored
               ELSE key_move(key.code)
       ELSE key_ignored

\* Editor::default(): the buffer of default() or open(path) with its one
\* selection at the origin
InitEditor ==
    /\ InitBuffer(1, min(MaxOpenLen, MaxAllLen))
    /\ selections = <<[cursor |-> PositionDefault, anchor |-> PositionDefault]>>

NextEditor == \E key \in Keys, io_ok \in BOOLEAN : process_keypress(key, io_ok)

\* The buffer engine with up to MaxSel selections.
Spec == Init /\ [][Next]_vars

\* The buffer engine with the one selection that default() and open() create.
SpecOne == InitOne /\ [][NextOne]_vars

\* One selection in the two-line file, with movement and typing.
SpecScenario == InitScenario /\ [][NextScenario]_vars

\* Every operation of the buffer, with up to MaxSel selections.
SpecAll == InitAll /\ [][NextAll]_vars

\* Movement, typing and scrolling in a window of any size, empty ones included.
SpecScroll == InitAll /\ [][NextScroll]_vars

\* The editor's key loop over its one buffer.
SpecEditor == InitEditor /\ [][NextEditor]_vars

\* One selection, with save.
SpecSave == InitSave /\ [][NextSave]_vars

\* Movement, typing and scrolling, with up to MaxSel selections.
SpecView == Init /\ [][NextView]_vars

\* ================================================================ claims
Consistent(t, cur) == cur.y < len_lines(t) /\ cur.x <= visible_len(t, cur.y)

OneSelection == Len(selections) = 1

\* C1: after any sequence of insert, delete and move_cursors calls every
\* selection's cursor is on a line of the text (y < len()) and at a column
\* no greater than the number of characters of that line without its
\* trailing newline.
C1_CursorTextConsistency ==
    ~panicked =>
        \A i \in 1..Len(selections) : Consistent(file_contents, selections[i].cursor)

\* C2: no buffer operation addresses a position beyond the current content:
\* insert, delete and move_cursors never reach a rope call with a character
\* index or line index out of range (which aborts the call in a panic).
C2_NoOutOfRange == ~panicked

\* C3: with one selection, insert(c) followed by delete(backspace=true)
\* restores the text and the cursor's y and x, for every character c.
C3_InsertBackspaceInverse ==
    (OneSelection /\ ~panicked) =>
        \A c \in Chars :
            LET r1 == insert_loop(Buf, 1, 1, c)
                r2 == delete_loop([text |-> r1.text, sels |-> r1.sels,
                                   panic |-> r1.panic, returned |-> FALSE],
                                  1, 1, TRUE)
            IN /\ ~r2.panic
               /\ ~r2.returned
               /\ r2.text = file_contents
               /\ r2.sels[1].cursor.y = selections[1].cursor.y
               /\ r2.sels[1].cursor.x = selections[1].cursor.x

\* The backspace of such a round trip has just run: the state before it is
\* what insert(c) makes of the present text and cursor.
C3_Witness ==
    /\ OneSelection
    /\ ~panicked
    /\ lastOp.op = "delete"
    /\ lastOp.arg = TRUE
    /\ Len(pre.text) = Len(file_contents) + 1
    /\ \E c \in Chars :
          LET r1 == insert_loop(Buf, 1, 1, c)
          IN r1.text = pre.text /\ r1.sels[1].cursor = pre.sels[1].cursor

\* C4: for two selections i and j on one line with columns a < b (j earlier or
\* later than i in the sequence), the edit that the loop of insert or delete
\* performs at i moves j's column, as it is when the loop reaches i, up by one
\* for an inserted non-newline character and down by one for a backspaced
\* character.
C4_NonInterference ==
    ~panicked =>
        \A i, j \in 1..Len(selections) :
            /\ \A c \in Chars \ {NL} :
                  LET b0 == insert_loop(Buf, 1, i - 1, c)
                      b1 == insert_sel(b0, i, c)
                  IN (/\ i # j
                      /\ selections[i].cursor.y = selections[j].cursor.y
                      /\ selections[i].cursor.x < selections[j].cursor.x
                      /\ ~b0.panic
                      /\ Consistent(b0.text, b0.sels[i].cursor)
                      /\ Consistent(b0.text, b0.sels[j].cursor)
                      /\ b0.sels[i].cursor.y = b0.sels[j].cursor.y
                      /\ b0.sels[i].cursor.x < b0.sels[j].cursor.x)
                     => (~b1.panic /\ b1.sels[j].cursor.x = b0.sels[j].cursor.x + 1)
            /\ LET d0 == delete_loop(DBuf, 1, i - 1, TRUE)
                   d1 == delete_sel(d0, i, TRUE)
               IN (/\ i # j
                   /\ selections[i].cursor.y = selections[j].cursor.y
                   /\ selections[i].cursor.x < selections[j].cursor.x
                   /\ ~d0.panic
                   /\ ~d0.returned
                   /\ Consistent(d0.text, d0.sels[i].cursor)
                   /\ Consistent(d0.text, d0.sels[j].cursor)
                   /\ d0.sels[i].cursor.y = d0.sels[j].cursor.y
                   /\ d0.sels[i].cursor.x >= 1
                   /\ d0.sels[i].cursor.x < d0.sels[j].cursor.x)
                  => (~d1.panic /\ d1.sels[j].cursor.x = d0.sels[j].cursor.x - 1)

\* C5: a delete call either applies a deletion for every selection and sets
\* the dirty flag, or leaves text, selections and dirty flag as they were.
C5_DeleteAtomic ==
    (lastOp.op = "delete" /\ ~panicked) =>
        \/ /\ file_contents = pre.text
           /\ selections = pre.sels
           /\ file_is_dirty = pre.dirty
        \/ /\ Len(file_contents) = Len(pre.text) - Len(pre.sels)
           /\ file_is_dirty

\* C6: in delete a selection at a boundary is skipped alone: every selection
\* of the sequence that is not at a boundary when the call starts still has
\* its deletion applied, so the text loses a character whenever there is one.
C6_BoundarySkipsOnlyItself ==
    (/\ lastOp.op = "delete"
     /\ ~panicked
     /\ \E i \in 1..Len(pre.sels) :
           /\ Consistent(pre.text, pre.sels[i].cursor)
           /\ ~at_boundary(pre.text, pre.sels[i].cursor, lastOp.arg))
    => Len(file_contents) < Len(pre.text)

\* C7: with one selection at column 0 of line y > 0, delete(backspace=true)
\* removes exactly the newline that ends line y - 1: line y is appended to
\* line y - 1, len() decreases by one and the cursor ends on line y - 1 at
\* the former visible length of that line.
C7_Pre ==
    /\ lastOp.op = "delete"
    /\ lastOp.arg = TRUE
    /\ ~panicked
    /\ Len(pre.sels) = 1
    /\ pre.sels[1].cursor.x = 0
    /\ pre.sels[1].cursor.y > 0

C7_LineJoin ==
    C7_Pre =>
        LET y == pre.sels[1].cursor.y
            nl == line_to_char(pre.text, y)
        IN /\ pre.text[nl] = NL
           /\ file_contents = SubSeq(pre.text, 1, nl - 1)
                                \o SubSeq(pre.text, nl + 1, Len(pre.text))
           /\ len_lines(file_contents) = len_lines(pre.text) - 1
           /\ selections[1].cursor.y = y - 1
           /\ selections[1].cursor.x = visible_len(pre.text, y - 1)

\* the join of a non-empty line onto a non-empty line
C7_Witness ==
    /\ C7_Pre
    /\ visible_len(pre.text, pre.sels[1].cursor.y - 1) > 0
    /\ visible_len(pre.text, pre.sels[1].cursor.y) > 0

\* C8: after shift_viewport(size) with width >= 1 and height >= 1 the primary
\* cursor lies inside the window: offset.x <= x < offset.x + width and
\* offset.y <= y < offset.y + height, so get_screen_cursor_pos is not None.
C8_ViewportContainment ==
    (lastOp.op = "shift_viewport" /\ ~panicked) =>
        LET cur == selections[primary_selection_idx + 1].cursor
            size == lastOp.arg
        IN /\ offset.x <= cur.x
           /\ cur.x < offset.x + size.width
           /\ offset.y <= cur.y
           /\ cur.y < offset.y + size.height
           /\ get_screen_cursor_pos(cur, offset, size) =
                 Some(Position(cur.x - offset.x, 0, cur.y - offset.y))

\* the call has scrolled both axes, from an offset that was not the origin
C8_Witness ==
    /\ lastOp.op = "shift_viewport"
    /\ offset.x # pre.offset.x
    /\ offset.y # pre.offset.y
    /\ pre.offset.x > 0

\* C9: after every insert, every delete and every move_cursors(Left) or
\* move_cursors(Right), each cursor has x_preferred = x.
C9_PreferredInSync ==
    (/\ ~panicked
     /\ \/ lastOp.op \in {"insert", "delete"}
        \/ lastOp.op = "move_cursors" /\ lastOp.arg \in {"Left", "Right"})
    => \A i \in 1..Len(selections) :
          selections[i].cursor.x_preferred = selections[i].cursor.x

\* C10 (as claimed): file_is_dirty is true if and only if the text differs
\* from the content at the last successful save (or at load/creation).
C10_DirtyIff ==
    ~panicked => (file_is_dirty <=> file_contents # saved)

\* C10 (amended): whenever the text differs from the content at the last
\* successful save (or at load/creation), file_is_dirty is true.
C10_DirtyIfChanged ==
    file_contents # saved => file_is_dirty

\* an edit after a successful save of edited text
C10_Witness ==
    /\ lastOp.op \in {"insert", "delete"}
    /\ file_contents # saved
    /\ file_is_dirty
    /\ file_path = "Some"
    /\ saved # <<>>

\* C11: with one selection at {y:0, x:0}, delete(backspace=true) leaves the
\* text, the cursor, the anchor and the dirty flag unchanged, whatever the
\* buffer content.
C11_Pre ==
    /\ lastOp.op = "delete"
    /\ lastOp.arg = TRUE
    /\ Len(pre.sels) = 1
    /\ pre.sels[1].cursor.x = 0
    /\ pre.sels[1].cursor.y = 0

C11_BackspaceAtOrigin ==
    C11_Pre =>
        /\ ~panicked
        /\ file_contents = pre.text
        /\ selections = pre.sels
        /\ file_is_dirty = pre.dirty

\* the call was made on a text with characters to lose
C11_Witness == C11_Pre /\ Len(pre.text) >= 2

\* C12: with one selection, insert('\n') at cursor (y, x) inserts one newline
\* at the cursor's character index, moves the cursor to {y: y + 1, x: 0} and
\* raises len() by one; for "abc\ndef\n" with the cursor at {y:0, x:3} the
\* text becomes "abc\n\ndef\n", the cursor {y:1, x:0} and len() is 3.
C12_Pre ==
    /\ lastOp.op = "insert"
    /\ lastOp.arg = NL
    /\ Len(pre.sels) = 1

C12_NewlineInsert ==
    C12_Pre =>
        LET cur == pre.sels[1].cursor
            at == line_to_char(pre.text, cur.y) + cur.x
        IN /\ ~panicked
           /\ file_contents = rope_insert(pre.text, at, NL)
           /\ selections[1].cursor.y = cur.y + 1
           /\ selections[1].cursor.x = 0
           /\ len_lines(file_contents) = len_lines(pre.text) + 1
           /\ (pre.text = ScenarioText /\ cur.y = 0 /\ cur.x = 3)
                 => /\ file_contents = <<"a", "b", "c", NL, NL, "d", "e", "f", NL>>
                    /\ len_lines(file_contents) = 3

\* C13: with one selection, insert(c) for c other than '\n' at cursor (y, x)
\* inserts c at the cursor's character index, leaves len() and cursor.y
\* unchanged, sets cursor.x to x + 1, buffer_is_empty to false and
\* file_is_dirty to true; on the empty default buffer the result is line
\* count 1 and cursor {y:0, x:1}.
C13_Pre ==
    /\ lastOp.op = "insert"
    /\ lastOp.arg # NL
    /\ Len(pre.sels) = 1

C13_CharInsert ==
    C13_Pre =>
        LET cur == pre.sels[1].cursor
            at == line_to_char(pre.text, cur.y) + cur.x
        IN /\ ~panicked
           /\ file_contents = rope_insert(pre.text, at, lastOp.arg)
           /\ len_lines(file_contents) = len_lines(pre.text)
           /\ selections[1].cursor.y = cur.y
           /\ selections[1].cursor.x = cur.x + 1
           /\ buffer_is_empty = FALSE
           /\ file_is_dirty = TRUE
           /\ (pre.text = <<>> /\ file_path = "None")
                 => /\ len_lines(file_contents) = 1
                    /\ selections[1].cursor.y = 0
                    /\ selections[1].cursor.x = 1

\* the first character typed into the default buffer
C13_Witness ==
    /\ C13_Pre
    /\ pre.text = <<>>
    /\ file_path = "None"
    /\ ~pre.dirty

\* C14 (as claimed): a buffer built by open has file_is_dirty = false, and
\* buffer_is_empty = true exactly when the file read is zero-length.
C14_OpenFlagsByContent ==
    (lastOp.op = "init" /\ file_path = "Some") =>
        /\ file_is_dirty = FALSE
        /\ buffer_is_empty <=> (file_contents = <<>>)

\* C14 (amended): a buffer built by open has file_is_dirty = false and
\* buffer_is_empty = false, for a zero-length file too.
C14_OpenFlags ==
    (lastOp.op = "init" /\ file_path = "Some") =>
        /\ file_is_dirty = FALSE
        /\ buffer_is_empty = FALSE

\* a zero-length file just opened
C14_Witness ==
    /\ lastOp.op = "init"
    /\ file_path = "Some"
    /\ file_contents = <<>>

\* C15: when save returns an error (the file cannot be created, the write
\* fails, or there is no path) file_is_dirty keeps its value; when it returns
\* Ok on a buffer with a path file_is_dirty is false; text and selections are
\* unchanged either way.
C15_SaveDirty ==
    lastOp.op = "save" =>
        /\ file_contents = pre.text
        /\ selections = pre.sels
        /\ lastOp.arg => (file_path = "Some" /\ file_is_dirty = FALSE)
        /\ ~lastOp.arg => file_is_dirty = pre.dirty

\* a failed write of an edited buffer that has a path
C15_Witness ==
    /\ lastOp.op = "save"
    /\ lastOp.arg = FALSE
    /\ file_path = "Some"
    /\ pre.dirty
    /\ file_is_dirty

\* C16: is_empty() is true exactly when the buffer holds no characters.
C16_IsEmpty ==
    ~panicked => (is_empty(file_contents) <=> Len(file_contents) = 0)

\* C18: after move_cursors(d), d in {Up, Down, Left, Right}, every selection's
\* cursor has y < len() and x = min(x_preferred, max(0, L - 1)), L the
\* character count of line y with its terminator; Up never takes y below 0
\* and Down never takes y above len() - 1.
C18_MoveClamped ==
    (lastOp.op = "move_cursors" /\ ~panicked) =>
        \A i \in 1..Len(selections) :
            LET cur == selections[i].cursor
            IN /\ cur.y >= 0
               /\ cur.y < len_lines(file_contents)
               /\ cur.x = min(cur.x_preferred,
                              saturating_sub(row_len_chars(file_contents, cur.y), 1))

\* C20: for a cursor on a line y that is not the last, with
\* x_preferred = x = k, move_cursors(Down) then move_cursors(Up) brings the
\* cursor back to (y, k), whatever the length of line y + 1.
C20_Pre ==
    /\ ~panicked
    /\ OneSelection
    /\ selections[1].cursor.y + 1 < len_lines(file_contents)
    /\ selections[1].cursor.x_preferred = selections[1].cursor.x

C20_DownUp ==
    C20_Pre =>
        LET down == move_result(file_contents, selections, "Down")
            up == move_result(file_contents, down, "Up")
        IN /\ down[1].cursor.y = selections[1].cursor.y + 1
           /\ up[1].cursor.y = selections[1].cursor.y
           /\ up[1].cursor.x = selections[1].cursor.x

\* Up has just brought the cursor back from a line too short for its column
C20_Witness ==
    /\ C20_Pre
    /\ lastOp.op = "move_cursors"
    /\ lastOp.arg = "Up"
    /\ pre.sels[1].cursor.y = selections[1].cursor.y + 1
    /\ pre.sels[1].cursor.x < selections[1].cursor.x
    /\ pre.sels = move_result(file_contents, selections, "Down")

\* C17: in every reachable state selections.len() >= 1 and
\* primary_selection_idx < selections.len(), and no insert, delete,
\* move_cursors, shift_viewport or save call changes the number of selections.
C17_SelectionsValid ==
    /\ Len(selections) >= 1
    /\ primary_selection_idx < Len(selections)
    /\ Len(selections) = Len(pre.sels)

\* two cursors have just been moved onto the same position
C17_Witness ==
    /\ lastOp.op = "move_cursors"
    /\ Len(selections) >= 2
    /\ selections[1].cursor = selections[2].cursor
    /\ pre.sels[1].cursor # pre.sels[2].cursor

\* C19: after every move_cursors call, every selection's anchor has the x
\* and the y of its cursor.
C19_AnchorSnapped ==
    lastOp.op = "move_cursors" =>
        \A i \in 1..Len(selections) :
            /\ selections[i].anchor.x = selections[i].cursor.x
            /\ selections[i].anchor.y = selections[i].cursor.y

\* several selections moved, one of them with its anchor left behind by an edit
C19_Witness ==
    /\ lastOp.op = "move_cursors"
    /\ Len(selections) >= 2
    /\ \E i \in 1..Len(selections) : pre.sels[i].anchor.y # pre.sels[i].cursor.y

\* C21: with one selection whose cursor (y, x) addresses an existing
\* character, delete(backspace=false) removes exactly that character, leaves
\* cursor x and y unchanged, and when the character is the newline ending
\* line y the next line is joined onto line y and len() drops by one.
C21_Pre ==
    /\ lastOp.op = "delete"
    /\ lastOp.arg = FALSE
    /\ Len(pre.sels) = 1
    /\ pre.sels[1].cursor.y < len_lines(pre.text)
    /\ line_to_char(pre.text, pre.sels[1].cursor.y) + pre.sels[1].cursor.x
          < len_chars(pre.text)

C21_ForwardDelete ==
    C21_Pre =>
        LET cur == pre.sels[1].cursor
            at == line_to_char(pre.text, cur.y) + cur.x
        IN /\ ~panicked
           /\ file_contents = rope_remove(pre.text, at)
           /\ len_chars(file_contents) = len_chars(pre.text) - 1
           /\ selections[1].cursor.x = cur.x
           /\ selections[1].cursor.y = cur.y
           /\ pre.text[at + 1] = NL =>
                 /\ len_lines(file_contents) = len_lines(pre.text) - 1
                 /\ row_len_chars(file_contents, cur.y) =
                       row_len_chars(pre.text, cur.y) - 1
                          + row_len_chars(pre.text, cur.y + 1)

\* the character removed was the newline between two lines with characters
C21_Witness ==
    /\ C21_Pre
    /\ pre.sels[1].cursor.x >= 1
    /\ pre.text[line_to_char(pre.text, pre.sels[1].cursor.y)
                   + pre.sels[1].cursor.x + 1] = NL
    /\ row_len_chars(pre.text, pre.sels[1].cursor.y + 1) >= 1

\* what C22 says of one axis: cur the primary cursor's coordinate, old and
\* new the offset before and after the call, extent the width or height
C22_Axis(cur, old, new, extent) ==
    /\ (old <= cur /\ cur < old + extent) => new = old
    /\ cur >= old + extent => cur - new = extent - 1
    /\ cur < old => new = cur

\* C22 (as claimed): shift_viewport leaves the offset alone on each axis
\* where the primary cursor is inside the window, puts a cursor beyond the
\* right/bottom edge on the last column/row, sets the offset to the cursor
\* coordinate when the cursor is left of/above it; a second call with the
\* same size changes nothing, and text and selections are never changed.
C22_MinimalScroll ==
    (lastOp.op = "shift_viewport" /\ ~panicked) =>
        LET cur == selections[primary_selection_idx + 1].cursor
            size == lastOp.arg
        IN /\ C22_Axis(cur.x, pre.offset.x, offset.x, size.width)
           /\ C22_Axis(cur.y, pre.offset.y, offset.y, size.height)
           /\ shift_offset(selections, primary_selection_idx, offset, size) = offset
           /\ file_contents = pre.text
           /\ selections = pre.sels

\* C22 (amended): the same, the three cases of an axis holding where the
\* window's extent on that axis is at least 1.
C22_MinimalScrollNonEmpty ==
    (lastOp.op = "shift_viewport" /\ ~panicked) =>
        LET cur == selections[primary_selection_idx + 1].cursor
            size == lastOp.arg
        IN /\ size.width >= 1 =>
                 C22_Axis(cur.x, pre.offset.x, offset.x, size.width)
           /\ size.height >= 1 =>
                 C22_Axis(cur.y, pre.offset.y, offset.y, size.height)
           /\ shift_offset(selections, primary_selection_idx, offset, size) = offset
           /\ file_contents = pre.text
           /\ selections = pre.sels

\* the offset shrank to a cursor left of it and grew to one below the window
C22_Witness ==
    /\ lastOp.op = "shift_viewport"
    /\ lastOp.arg.width >= 1
    /\ lastOp.arg.height >= 1
    /\ selections[primary_selection_idx + 1].cursor.x < pre.offset.x
    /\ selections[primary_selection_idx + 1].cursor.y
          >= pre.offset.y + lastOp.arg.height

\* C23: when selection i inserts '\n' at (y, a), every later selection whose
\* cursor or anchor was on line y at a column greater than a is moved to the
\* new line y + 1 with its column reduced by a; the comparison is with
\* selection i's original line and column, not with its position after the
\* insert (so a coordinate on another line keeps its column).
C23_Relocated(old, new, y, a) ==
    IF old.y = y /\ old.x > a
    THEN new.y = y + 1 /\ new.x = old.x - a
    ELSE new.x = old.x

C23_Pre ==
    /\ ~panicked
    /\ Len(selections) >= 2
    /\ selections[1].cursor.y < len_lines(file_contents)

C23_NewlineSplit ==
    C23_Pre =>
        LET b == insert_sel(Buf, 1, NL)
            y == selections[1].cursor.y
            a == selections[1].cursor.x
        IN /\ ~b.panic
           /\ \A j \in 2..Len(selections) :
                 /\ C23_Relocated(selections[j].cursor, b.sels[j].cursor, y, a)
                 /\ C23_Relocated(selections[j].anchor, b.sels[j].anchor, y, a)

\* character index that a cursor addresses
C24_Index(t, cur) == line_to_char(t, cur.y) + cur.x

\* number of selections whose original index is below n
C24_Below(n) ==
    Cardinality({k \in 1..Len(selections) :
                    C24_Index(file_contents, selections[k].cursor) < n})

C24_Pre ==
    /\ ~panicked
    /\ Len(selections) >= 2
    /\ \A i \in 1..Len(selections) : Consistent(file_contents, selections[i].cursor)
    /\ \A i, j \in 1..Len(selections) :
          i # j => selections[i].cursor.x # selections[j].cursor.x
                   \/ selections[i].cursor.y # selections[j].cursor.y

\* after insert(c) the text is the original with one c in front of each
\* selection's original cursor character, each cursor right after its own c
C24_Insert(c) ==
    LET r == insert_loop(Buf, 1, Len(selections), c)
    IN /\ ~r.panic
       /\ Len(r.text) = Len(file_contents) + Len(selections)
       /\ \A p \in 1..Len(file_contents) :
             r.text[p + C24_Below(p)] = file_contents[p]
       /\ \A i \in 1..Len(selections) :
             LET n == C24_Index(file_contents, selections[i].cursor)
             IN /\ r.sels[i].cursor.y < len_lines(r.text)
                /\ C24_Index(r.text, r.sels[i].cursor) = n + C24_Below(n + 1)
                /\ r.text[n + C24_Below(n + 1)] = c

\* after delete(backspace=true), each selection removing the character in
\* front of its cursor, a cursor whose own character was not removed by
\* another selection still addresses it
C24_Backspace ==
    (\A k \in 1..Len(selections) :
        C24_Index(file_contents, selections[k].cursor) >= 1) =>
    LET r == delete_loop(DBuf, 1, Len(selections), TRUE)
    IN /\ ~r.panic
       /\ ~r.returned
       /\ \A i \in 1..Len(selections) :
             LET n == C24_Index(file_contents, selections[i].cursor)
             IN (\A k \in 1..Len(selections) :
                    C24_Index(file_contents, selections[k].cursor) # n + 1) =>
                /\ r.sels[i].cursor.y < len_lines(r.text)
                /\ C24_Index(r.text, r.sels[i].cursor) = n - C24_Below(n + 1)

\* C24: for N >= 2 selections at pairwise distinct positions, after insert(c)
\* the text is the original with one c inserted immediately before each
\* selection's original cursor character and each cursor sits immediately
\* after its own c; after delete(backspace=true) joining or shortening lines
\* every other selection's cursor still addresses the character it addressed
\* before.
C24_OwnCharacter ==
    C24_Pre => /\ \A c \in Chars : C24_Insert(c)
               /\ C24_Backspace

\* the cursor that C25 calls blocked for a direction
C25_Blocked(t, cur, key_code) ==
    CASE key_code = "Up" -> cur.y = 0
      [] key_code = "Down" -> cur.y + 1 = len_lines(t)
      [] key_code = "Left" -> cur.x = 0
      [] key_code = "Right" ->
            cur.x = saturating_sub(row_len_chars(t, cur.y), 1)
      [] OTHER -> FALSE

\* C25: in every reachable state move_cursors(Up) with the cursor on line 0,
\* move_cursors(Down) on the last line, move_cursors(Left) at column 0 and
\* move_cursors(Right) at the last in-bounds column leave that cursor's x and
\* y unchanged, right after typing with insert too.
C25_BlockedMoveNoOp ==
    (lastOp.op = "move_cursors" /\ ~panicked) =>
        \A i \in 1..Len(selections) :
            C25_Blocked(pre.text, pre.sels[i].cursor, lastOp.arg) =>
               /\ selections[i].cursor.x = pre.sels[i].cursor.x
               /\ selections[i].cursor.y = pre.sels[i].cursor.y

\* C26: after any sequence of key events processed by process_keypress
\* (characters, ':', 'i', Esc, Enter, Left, Right, Backspace, Delete, in any
\* mode) command_line.cursor_pos <= length of command_line.command, so that
\* typing a character in Command mode always inserts at a valid index.
C26_CommandCursorInRange ==
    command_line.cursor_pos <= Len(command_line.command)
====
